---- MODULE Spec2Model ----
(***************************************************************************)
(* Monte Carlo scenario projection engine                                  *)
(* (src/01_scenario_modeling/src/modeler.py).                              *)
(*                                                                         *)
(* Numbers.  The program computes in binary floating point.  The model     *)
(* computes in fixed point: a real x is the integer 1000 * x (thousandths),*)
(* additions and subtractions are exact, and every multiplication,         *)
(* division and square root is rounded to the nearest thousandth, as a     *)
(* floating-point operation is rounded to the nearest representable value. *)
(* The value NaN is the float "not a number"; every operation that reads   *)
(* it yields it and every comparison with it is false.                     *)
(* A scenario multiplier is an integer count of halves (3 is 1.5).         *)
(*                                                                         *)
(* Random numbers.  numpy's default_rng(seed) is a deterministic stream of *)
(* standard normal draws; Generator.normal(0, s) is s times the next draw. *)
(* The values PCG64 yields for seed 42 are not modelled: Init picks the    *)
(* stream in a small family (bitgen) and nothing below depends on which.   *)
(*                                                                         *)
(* Empty reductions.  np.percentile over an axis of length 0 (a call with  *)
(* num_simulations = 0) returns NaN in older numpy releases and raises     *)
(* IndexError in newer ones; the repository pins no release, so a call     *)
(* that reaches line 49 with no simulation takes either outcome.           *)
(***************************************************************************)
EXTENDS Integers, Sequences, FiniteSets, TLC

----------------------------------------------------------------------------
(* Bounds of the model *)

\* largest months_ahead a call is made with
MaxMonths == 3
\* largest num_simulations a call is made with
MaxSims == 2

----------------------------------------------------------------------------
(* Program constants *)

\* np.random.default_rng(42)
Seed == 42
\* historical.tail(6)
TrendWindow == 6
\* if len(series) < 3: continue
MinObservations == 3
\* float('nan'), as pandas' std of fewer than two values and numpy's reductions
\* of an empty axis produce it
NaN == -999999999

----------------------------------------------------------------------------
(* Fixed-point arithmetic with NaN *)

IsNaN(x) == x = NaN

Max2(a, b) == IF a >= b THEN a ELSE b

\* a / b rounded to the nearest integer (halves up), b > 0
DivRound(a, b) == (2 * a + b) \div (2 * b)

FAdd(a, b) == IF IsNaN(a) \/ IsNaN(b) THEN NaN ELSE a + b

FSub(a, b) == IF IsNaN(a) \/ IsNaN(b) THEN NaN ELSE a - b

\* IEEE comparison: false as soon as one side is NaN
FLeq(a, b) == ~IsNaN(a) /\ ~IsNaN(b) /\ a <= b

RECURSIVE SqrtSearch(_, _, _)
SqrtSearch(n, lo, hi) ==
    IF lo >= hi THEN lo
    ELSE LET mid == (lo + hi + 1) \div 2
         IN  IF mid * mid <= n THEN SqrtSearch(n, mid, hi)
                               ELSE SqrtSearch(n, lo, mid - 1)

\* integer square root of n >= 0 (largest r with r * r <= n)
ISqrt(n) == SqrtSearch(n, 0, 46340)

\* s[lo] + ... + s[hi], summed by halves
RECURSIVE SumRange(_, _, _)
SumRange(s, lo, hi) ==
    IF lo > hi THEN 0
    ELSE IF lo = hi THEN s[lo]
    ELSE LET mid == (lo + hi) \div 2
         IN  SumRange(s, lo, mid) + SumRange(s, mid + 1, hi)

SumSeq(s) == SumRange(s, 1, Len(s))

\* sum over s of (x - c)^2 / d, each term rounded: the squares are in
\* millionths and are divided before they are summed
SumSqDev(s, c, d) ==
    SumSeq([i \in 1..Len(s) |-> DivRound((s[i] - c) * (s[i] - c), d)])

\* arithmetic mean; NaN for an empty sequence (numpy: mean of empty slice)
Mean(s) == IF Len(s) = 0 THEN NaN ELSE DivRound(SumSeq(s), Len(s))

\* standard deviation with ddof delta degrees of freedom; NaN when
\* Len(s) - ddof <= 0
StdDev(s, ddof) ==
    IF Len(s) - ddof <= 0 THEN NaN
    ELSE ISqrt(SumSqDev(s, Mean(s), Len(s) - ddof))

\* numpy's ndarray.round(2) / Python's round(x, 2): nearest hundredth, halves
\* to the even hundredth.  A hundredth is 10 thousandths.
Round2(x) ==
    IF IsNaN(x) THEN NaN
    ELSE LET r    == x % 10
             base == x - r
         IN  IF r < 5 THEN base
             ELSE IF r > 5 THEN base + 10
             ELSE IF (base \div 10) % 2 = 0 THEN base ELSE base + 10

\* the k-th smallest value of col (k from 1): what sorting col puts at place k
KthSmallest(col, k) ==
    CHOOSE x \in {col[i] : i \in 1..Len(col)} :
        /\ Cardinality({i \in 1..Len(col) : col[i] < x}) < k
        /\ k <= Cardinality({i \in 1..Len(col) : col[i] <= x})

\* the value at place k of col as it stands: a percentile that forgets to sort
KthUnsorted(col, k) == col[k]

\* the value at place k (from 1) of the sorted column
OrderStatistic(col, k) == KthSmallest(col, k)

\* np.percentile(col, q) with the default linear interpolation: the virtual
\* index (n - 1) * q / 100 into the sorted column, and numpy's lerp between
\* the two neighbours (from the upper one when the fraction is >= 0.5)
Percentile(col, q) ==
    IF Len(col) = 0 THEN NaN
    ELSE LET v   == (Len(col) - 1) * q
             lo  == v \div 100
             g   == v % 100
             x   == OrderStatistic(col, lo + 1)
             y   == IF lo + 2 <= Len(col) THEN OrderStatistic(col, lo + 2) ELSE x
         IN  IF g >= 50 THEN y - DivRound((y - x) * (100 - g), 100)
                        ELSE x + DivRound((y - x) * g, 100)

----------------------------------------------------------------------------
(* The random generator *)

\* standard normal values of the family's streams, in tenths
ZVals == <<-13, -4, 0, 7, 15>>

\* the generators of the family: stream j -> ZVals[(Seed + a * j + b) mod 5]
BitGens == {<<1, 0>>, <<2, 1>>, <<3, 3>>}

\* the (pos + 1)-th standard normal draw (in tenths) of a generator created
\* by default_rng(Seed)
StandardNormal(gen, pos) ==
    ZVals[((Seed + gen[1] * pos + gen[2]) % Len(ZVals)) + 1]

\* rng.normal(0, scale): scale times the next standard normal draw
Normal(gen, pos, scale) ==
    IF IsNaN(scale) THEN NaN
    ELSE DivRound(scale * StandardNormal(gen, pos), 10)

----------------------------------------------------------------------------
(* project_metric *)

\* recent = historical: the whole series taken for its last observations
WholeSeries(historical) == historical

\* historical.tail(6): the last TrendWindow observations, all when fewer
RecentWindow(historical) ==
    SubSeq(historical, Max2(1, Len(historical) - TrendWindow + 1), Len(historical))

\* the slope neither guarded nor clamped, (last - first) / (len(recent) - 1):
\* numpy's division of 0.0 by 0 gives nan
TrendUnclamped(historical) ==
    LET recent == RecentWindow(historical)
    IN  IF Len(recent) = 0 THEN 0
        ELSE IF Len(recent) = 1 THEN NaN
        ELSE DivRound(recent[Len(recent)] - recent[1], Len(recent) - 1)

\* the endpoint slope of the recent window; 0 when it has at most one element
Trend(historical) ==
    LET recent == RecentWindow(historical)
    IN  IF Len(recent) > 1
        THEN DivRound(recent[Len(recent)] - recent[1], Max2(Len(recent) - 1, 1))
        ELSE 0

\* the deviation taken about 0 instead of about the mean
StdAboutZero(historical) ==
    IF Len(historical) - 1 <= 0 THEN NaN
    ELSE ISqrt(SumSqDev(historical, 0, Len(historical) - 1))

\* recent.std(): the deviation of the trailing window only
WindowStd(historical) == StdDev(RecentWindow(historical), 1)

\* historical.std(): pandas' sample standard deviation (ddof = 1)
HistoricalStd(historical) == StdDev(historical, 1)

\* std * 0.3
NoiseScale(std) == IF IsNaN(std) THEN NaN ELSE DivRound(std * 3, 10)

\* the drift applied against the scenario's direction
DriftReversed(trend, scenario_multiplier) == DivRound(trend * (0 - scenario_multiplier), 2)

\* the drift applied without the scenario's multiplier
DriftUnscaled(trend, scenario_multiplier) == trend

\* trend * scenario_multiplier (the multiplier counts halves)
Drift(trend, scenario_multiplier) == DivRound(trend * scenario_multiplier, 2)

\* np.zeros((num_simulations, months_ahead))
Zeros(num_simulations, months_ahead) ==
    [i \in 1..num_simulations |-> [k \in 1..months_ahead |-> 0]]

\* a generator kept from one call to the next instead of created in the call
SharedGenerator(old) == old

\* rng = np.random.default_rng(42): a generator created in the call is at the
\* head of the seed's stream, wherever the previous call's generator (old) was
NewGenerator(old) == 0

\* lines 30-38: the locals of a call before its loops, or the exception raised.
\* np.zeros raises ValueError on a negative dimension; historical.iloc[-1]
\* raises IndexError on an empty series.
ProjectEnter(oldrng, historical, months_ahead, scenario_multiplier, num_simulations) ==
    LET f == [historical         |-> historical,
              months_ahead       |-> months_ahead,
              scenario_multiplier |-> scenario_multiplier,
              num_simulations    |-> num_simulations,
              rng                |-> NewGenerator(oldrng),
              std                |-> HistoricalStd(historical),
              trend              |-> Trend(historical),
              simulations        |-> <<>>,
              start              |-> 0,
              sim                |-> 0,
              month              |-> 0,
              current            |-> 0]
    IN  IF num_simulations < 0 \/ months_ahead < 0
        THEN [raised |-> "ValueError", frame |-> f]
        ELSE IF Len(historical) = 0
        THEN [raised |-> "IndexError",
              frame  |-> [f EXCEPT !.simulations = Zeros(num_simulations, months_ahead)]]
        ELSE [raised |-> "",
              frame  |-> [f EXCEPT !.simulations = Zeros(num_simulations, months_ahead),
                                   !.start = historical[Len(historical)],
                                   !.current = historical[Len(historical)]]]

\* an iteration of the inner loop is left to run
LoopPending(f) == f.sim < f.num_simulations /\ f.months_ahead > 0

\* the loop body with historical.iloc[-1] = current added: the path is written
\* back into the caller's series
ProjectStepInPlace(gen, f) ==
    LET base    == IF f.month = 0 THEN f.start ELSE f.current
        noise   == Normal(gen, f.rng, NoiseScale(f.std))
        current == FAdd(base + Drift(f.trend, f.scenario_multiplier), noise)
        last    == f.month + 1 = f.months_ahead
    IN  [f EXCEPT !.rng = @ + 1,
                  !.current = current,
                  !.simulations[f.sim + 1][f.month + 1] = current,
                  !.historical[Len(f.historical)] = current,
                  !.month = IF last THEN 0 ELSE @ + 1,
                  !.sim = IF last THEN @ + 1 ELSE @]

\* the loop body without current = start at the head of a path: a path goes
\* on from where the path before it ended
ProjectStepCarried(gen, f) ==
    LET noise   == Normal(gen, f.rng, NoiseScale(f.std))
        current == FAdd(f.current + Drift(f.trend, f.scenario_multiplier), noise)
        last    == f.month + 1 = f.months_ahead
    IN  [f EXCEPT !.rng = @ + 1,
                  !.current = current,
                  !.simulations[f.sim + 1][f.month + 1] = current,
                  !.month = IF last THEN 0 ELSE @ + 1,
                  !.sim = IF last THEN @ + 1 ELSE @]

\* the loops nested the other way round, months outside and paths inside: the
\* draws go down the columns of the matrix
ProjectStepMonthMajor(gen, f) ==
    LET base    == IF f.month = 0 THEN f.start ELSE f.simulations[f.sim + 1][f.month]
        noise   == Normal(gen, f.rng, NoiseScale(f.std))
        current == FAdd(base + Drift(f.trend, f.scenario_multiplier), noise)
        last    == f.sim + 1 = f.num_simulations
        over    == last /\ f.month + 1 = f.months_ahead
    IN  [f EXCEPT !.rng = @ + 1,
                  !.current = current,
                  !.simulations[f.sim + 1][f.month + 1] = current,
                  !.sim = IF over THEN f.num_simulations ELSE IF last THEN 0 ELSE @ + 1,
                  !.month = IF over THEN 0 ELSE IF last THEN @ + 1 ELSE @]

\* lines 41-45: one iteration of the inner loop, for path f.sim and month
\* f.month (both counted from 0); a path starts over from start
ProjectStep(gen, f) ==
    LET base    == IF f.month = 0 THEN f.start ELSE f.current
        noise   == Normal(gen, f.rng, NoiseScale(f.std))
        current == FAdd(base + Drift(f.trend, f.scenario_multiplier), noise)
        last    == f.month + 1 = f.months_ahead
    IN  [f EXCEPT !.rng = @ + 1,
                  !.current = current,
                  !.simulations[f.sim + 1][f.month + 1] = current,
                  !.month = IF last THEN 0 ELSE @ + 1,
                  !.sim = IF last THEN @ + 1 ELSE @]

\* simulations[:, 0]: the first month's column taken for every month
ColumnFirst(simulations, k) == [i \in 1..Len(simulations) |-> simulations[i][1]]

\* simulations[:, k - 1]
Column(simulations, k) == [i \in 1..Len(simulations) |-> simulations[i][k]]

HasNaN(col) == \E i \in 1..Len(col) : IsNaN(col[i])

\* np.percentile(simulations, q, axis=0)[k - 1].round(2)
ColPercentile(col, q) == IF HasNaN(col) THEN NaN ELSE Round2(Percentile(col, q))

\* simulations.mean(axis=0)[k - 1].round(2)
ColMean(col) == IF HasNaN(col) THEN NaN ELSE Round2(Mean(col))

\* simulations.std(axis=0)[k - 1].round(2): numpy's population deviation
ColStd(col) == IF HasNaN(col) THEN NaN ELSE Round2(StdDev(col, 0))

\* row k of the returned frame
SummaryRow(simulations, k) ==
    LET col == Column(simulations, k)
    IN  [month  |-> k,
         p10    |-> ColPercentile(col, 10),
         p25    |-> ColPercentile(col, 25),
         median |-> ColPercentile(col, 50),
         p75    |-> ColPercentile(col, 75),
         p90    |-> ColPercentile(col, 90),
         mean   |-> ColMean(col),
         std    |-> ColStd(col)]

\* range(1, months_ahead): one month short
MonthRangeShort(months_ahead) == 1..(months_ahead - 1)

\* the reductions of lines 49-55 run over an axis of length 0
EmptyReduction(f) == f.num_simulations = 0

\* "month": range(1, months_ahead + 1)
MonthRange(months_ahead) == 1..months_ahead

\* lines 47-56: the returned DataFrame, a sequence of rows
ProjectReturn(f) ==
    [k \in MonthRange(f.months_ahead) |-> SummaryRow(f.simulations, k)]

----------------------------------------------------------------------------
(* A caller of project_metric: it holds one series and one simulation      *)
(* count, as run_all_scenarios does for a group, and calls project_metric  *)
(* any number of times, one call at a time, with any horizon and           *)
(* multiplier                                                              *)

VARIABLES
    bitgen,   \* the stream default_rng(Seed) yields
    series,   \* the caller's historical series
    num_sims, \* the caller's num_simulations
    pc,       \* "idle", "loop" (inside project_metric), "returned", "raised"
    frame,    \* the locals of the current (or last) project_metric call
    result,   \* the DataFrame the last call returned
    first     \* <<>>, or <<the arguments and the result of the first call that
              \* returned, and whether a later call has returned since (again)>>

\* the state of run_all_scenarios and of the two views of its result
VARIABLES
    raw_df,   \* the dataset: a sequence of rows [facility, metric, date, value]
    cfg,      \* SETTINGS["scenarios"]: variation, num_simulations, time_horizons
    rpc,      \* "off", "begin", "facility", "metric", "scenario", "done", "raised"
    fi,       \* position of the outer loop in the facilities
    mi,       \* position of the middle loop in the metrics
    si,       \* position of the inner loop in the scenario variations
    results,  \* the nested dict under construction, then returned
    flat,     \* <<>>, or <<what the last scenarios_to_flat_df(results) gave>>
    endpoint  \* <<>>, or <<what the last scenarios_endpoint_summary(results) gave>>

callerVars == <<series, num_sims, pc, first>>

runVars == <<raw_df, cfg, rpc, fi, mi, si, results, flat, endpoint>>

vars == <<bitgen, series, num_sims, pc, frame, result, first, raw_df, cfg, rpc,
          fi, mi, si, results, flat, endpoint>>

\* historical series the callers hold (thousandths)
Histories ==
    { <<1000>>,
      <<1000, 1000, 1010>>,
      <<100000, 102000, 104000, 106000, 108000, 110000>>,
      <<5000, 3000, 1020, 1010, 1050, 1030, 1060, 1040>> }

\* scenario multipliers the callers pass (halves): -1.0, 0, 0.5, 1.0
Multipliers == {-2, 0, 1, 2}

MonthArgs == -1..MaxMonths

SimArgs == -1..MaxSims

IdleFrame == ProjectEnter(0, <<>>, 0, 0, 0).frame

NoConfig == [variation |-> <<>>, num_simulations |-> 0, time_horizons |-> <<>>]

\* run_all_scenarios is not in use
RunOff ==
    /\ raw_df = <<>>
    /\ cfg = NoConfig
    /\ rpc = "off"
    /\ fi = 0
    /\ mi = 0
    /\ si = 0
    /\ results = <<>>
    /\ flat = <<>>
    /\ endpoint = <<>>

Init ==
    /\ bitgen \in BitGens
    /\ series \in Histories
    /\ num_sims \in SimArgs
    /\ pc = "idle"
    /\ frame = IdleFrame
    /\ result = <<>>
    /\ first = <<>>
    /\ RunOff

\* project_metric(series, months_ahead, scenario_multiplier, num_sims) is
\* called: lines 30-38
Call(months_ahead, scenario_multiplier) ==
    /\ pc # "loop"
    /\ LET e == ProjectEnter(frame.rng, series, months_ahead,
                             scenario_multiplier, num_sims)
       IN  /\ frame' = e.frame
           /\ pc' = IF e.raised = "" THEN "loop" ELSE "raised"
    /\ result' = <<>>
    /\ UNCHANGED <<bitgen, series, num_sims, first, runVars>>

\* one iteration of the inner loop: lines 43-45
Draw ==
    /\ pc = "loop"
    /\ LoopPending(frame)
    /\ frame' = ProjectStep(bitgen, frame)
    /\ UNCHANGED <<bitgen, series, num_sims, pc, result, first, runVars>>

\* the loops are over: lines 47-56
Return ==
    /\ pc = "loop"
    /\ ~LoopPending(frame)
    /\ result' = ProjectReturn(frame)
    /\ pc' = "returned"
    /\ first' = IF first = <<>>
                THEN <<[months_ahead        |-> frame.months_ahead,
                        scenario_multiplier |-> frame.scenario_multiplier,
                        result              |-> ProjectReturn(frame),
                        again               |-> FALSE]>>
                ELSE <<[first[1] EXCEPT !.again = TRUE]>>
    /\ UNCHANGED <<bitgen, series, num_sims, frame, runVars>>

\* the loops are over and np.percentile raises on the empty axis: line 49
ReturnRaises ==
    /\ pc = "loop"
    /\ ~LoopPending(frame)
    /\ EmptyReduction(frame)
    /\ pc' = "raised"
    /\ UNCHANGED <<bitgen, series, num_sims, frame, result, first, runVars>>

Next ==
    \/ \E n \in MonthArgs, m \in Multipliers : Call(n, m)
    \/ Draw
    \/ Return
    \/ ReturnRaises

Spec == Init /\ [][Next]_vars

----------------------------------------------------------------------------
(* The caller of project_metric on constant series *)

\* constant series: 2.00 twice, 1.234 three times
ConstantHistories == { <<2000, 2000>>, <<1234, 1234, 1234>> }

InitConstant ==
    /\ bitgen \in BitGens
    /\ series \in ConstantHistories
    /\ num_sims \in SimArgs
    /\ pc = "idle"
    /\ frame = IdleFrame
    /\ result = <<>>
    /\ first = <<>>
    /\ RunOff

SpecConstant == InitConstant /\ [][Next]_vars

\* a caller of project_metric on one series, whose calls once entered run on:
\* the loops go on while an iteration is left
InitFair == Init /\ series = <<1000, 1000, 1010>>

NextFair ==
    \/ \E n \in MonthArgs, m \in {-2, 2} : Call(n, m)
    \/ Draw
    \/ Return
    \/ ReturnRaises

SpecFair == InitFair /\ [][NextFair]_vars /\ WF_vars(Draw)

----------------------------------------------------------------------------
(* Dicts (insertion-ordered) as sequences of <<key, value>> pairs *)

HasKey(d, k) == \E i \in 1..Len(d) : d[i][1] = k

DictGet(d, k) == d[CHOOSE i \in 1..Len(d) : d[i][1] = k][2]

\* d[k] = v: replaces the value of a key already there, appends a new key
DictSet(d, k, v) ==
    IF HasKey(d, k)
    THEN [i \in 1..Len(d) |-> IF d[i][1] = k THEN <<k, v>> ELSE d[i]]
    ELSE Append(d, <<k, v>>)

----------------------------------------------------------------------------
(* run_all_scenarios *)

\* project_metric run to its end: the loops of lines 40-45
RECURSIVE ProjectLoop(_, _)
ProjectLoop(gen, f) ==
    IF LoopPending(f) THEN ProjectLoop(gen, ProjectStep(gen, f)) ELSE f

\* a whole call of project_metric, as the set of its possible outcomes: the
\* exception raised ("" when none), the locals at the end and the DataFrame
\* returned
ProjectMetric(gen, oldrng, historical, months_ahead, scenario_multiplier, num_simulations) ==
    LET e == ProjectEnter(oldrng, historical, months_ahead, scenario_multiplier,
                          num_simulations)
        f == ProjectLoop(gen, e.frame)
    IN  IF e.raised # ""
        THEN {[raised |-> e.raised, frame |-> e.frame, table |-> <<>>]}
        ELSE {[raised |-> "", frame |-> f, table |-> ProjectReturn(f)]}
             \cup (IF EmptyReduction(f)
                   THEN {[raised |-> "IndexError", frame |-> f, table |-> <<>>]}
                   ELSE {})

\* Series.unique(): the distinct values in order of first appearance
RECURSIVE Unique(_)
Unique(s) ==
    IF s = <<>> THEN <<>>
    ELSE LET u == Unique(SubSeq(s, 1, Len(s) - 1))
             x == s[Len(s)]
         IN  IF \E i \in 1..Len(u) : u[i] = x THEN u ELSE Append(u, x)

\* raw_df["facility"].unique()
Facilities(df) == Unique([i \in 1..Len(df) |-> df[i].facility])

\* raw_df["metric"].unique(): the metrics of the whole dataset
Metrics(df) == Unique([i \in 1..Len(df) |-> df[i].metric])

IsGroupRow(row, facility, metric) == row.facility = facility /\ row.metric = metric

RECURSIVE InsertByDate(_, _)
InsertByDate(row, s) ==
    IF s = <<>> THEN <<row>>
    ELSE IF row.date < Head(s).date THEN <<row>> \o s
    ELSE <<Head(s)>> \o InsertByDate(row, Tail(s))

\* sort_values("date") (dates are distinct within a group)
RECURSIVE SortByDate(_)
SortByDate(rows) ==
    IF rows = <<>> THEN <<>>
    ELSE InsertByDate(rows[Len(rows)], SortByDate(SubSeq(rows, 1, Len(rows) - 1)))

\* the values of the group in the order of the dataset: sort_values("date")
\* left out
GroupSeriesUnsorted(df, facility, metric) ==
    LET rows == SelectSeq(df, LAMBDA r : IsGroupRow(r, facility, metric))
    IN  [i \in 1..Len(rows) |-> rows[i].value]

\* lines 73-80: the values of one facility and metric in ascending date order
GroupSeries(df, facility, metric) ==
    LET rows == SortByDate(SelectSeq(df, LAMBDA r : IsGroupRow(r, facility, metric)))
    IN  [i \in 1..Len(rows) |-> rows[i].value]

\* if len(series) <= 3: continue
TooShortInclusive(s) == Len(s) <= MinObservations

\* if len(series) < 3: continue
TooShort(s) == Len(s) < MinObservations

\* cfg["time_horizons"][0]: the first configured horizon, not the largest
FirstOf(s) == s[1]

RECURSIVE MaxOf(_)
MaxOf(s) == IF Len(s) = 1 THEN s[1] ELSE Max2(Head(s), MaxOf(Tail(s)))

\* lines 65-70; max() of an empty time_horizons raises ValueError
RunBegin ==
    /\ rpc = "begin"
    /\ rpc' = IF cfg.time_horizons = <<>> THEN "raised" ELSE "facility"
    /\ fi' = 1
    /\ results' = <<>>
    /\ UNCHANGED <<bitgen, frame, result, callerVars, raw_df, cfg, mi, si, flat, endpoint>>

\* the facility and the metric the loops are at
CurFacility == Facilities(raw_df)[fi]

CurMetric == Metrics(raw_df)[mi]

CurSeries == GroupSeries(raw_df, CurFacility, CurMetric)

\* lines 71-73 giving a facility its key only when one of its groups is long
\* enough to be projected
EnterFacilityWhenProjected ==
    /\ rpc = "facility"
    /\ fi <= Len(Facilities(raw_df))
    /\ results' = IF \E m \in 1..Len(Metrics(raw_df)) :
                        ~TooShort(GroupSeries(raw_df, CurFacility, Metrics(raw_df)[m]))
                  THEN DictSet(results, CurFacility, <<>>)
                  ELSE results
    /\ mi' = 1
    /\ rpc' = "metric"
    /\ UNCHANGED <<bitgen, frame, result, callerVars, raw_df, cfg, fi, si, flat, endpoint>>

\* lines 71-73: the outer loop enters a facility
EnterFacility ==
    /\ rpc = "facility"
    /\ fi <= Len(Facilities(raw_df))
    /\ results' = DictSet(results, CurFacility, <<>>)
    /\ mi' = 1
    /\ rpc' = "metric"
    /\ UNCHANGED <<bitgen, frame, result, callerVars, raw_df, cfg, fi, si, flat, endpoint>>

\* the middle loop moves to the next metric, or the outer loop to the next facility
NextGroup ==
    IF mi < Len(Metrics(raw_df))
    THEN mi' = mi + 1 /\ rpc' = "metric" /\ fi' = fi
    ELSE mi' = mi /\ rpc' = "facility" /\ fi' = fi + 1

\* lines 75-82: a group of fewer than 3 observations is passed over
SkipGroup ==
    /\ rpc = "metric"
    /\ TooShort(CurSeries)
    /\ NextGroup
    /\ UNCHANGED <<bitgen, frame, result, callerVars, raw_df, cfg, si, results, flat, endpoint>>

\* lines 75-84: a group of at least 3 observations gets its entry
EnterGroup ==
    /\ rpc = "metric"
    /\ ~TooShort(CurSeries)
    /\ results' = DictSet(results, CurFacility,
                          DictSet(DictGet(results, CurFacility), CurMetric, <<>>))
    /\ si' = 1
    /\ IF cfg.variation = <<>>
       THEN NextGroup
       ELSE rpc' = "scenario" /\ UNCHANGED <<fi, mi>>
    /\ UNCHANGED <<bitgen, frame, result, callerVars, raw_df, cfg, flat, endpoint>>

\* the call of lines 86-88 made with the multiplier of the first scenario for
\* every scenario
RunScenarioFirstMultiplier ==
    /\ rpc = "scenario"
    /\ \E call \in ProjectMetric(bitgen, frame.rng, CurSeries, MaxOf(cfg.time_horizons),
                                 cfg.variation[1][2], cfg.num_simulations) :
       LET name == cfg.variation[si][1]
           byMetric == DictGet(results, CurFacility)
       IN  /\ frame' = call.frame
           /\ result' = call.table
           /\ IF call.raised # ""
              THEN rpc' = "raised" /\ UNCHANGED <<fi, mi, si, results>>
              ELSE /\ results' =
                        DictSet(results, CurFacility,
                                DictSet(byMetric, CurMetric,
                                        DictSet(DictGet(byMetric, CurMetric), name,
                                                call.table)))
                   /\ IF si < Len(cfg.variation)
                      THEN si' = si + 1 /\ UNCHANGED <<rpc, fi, mi>>
                      ELSE si' = si /\ NextGroup
    /\ UNCHANGED <<bitgen, callerVars, raw_df, cfg, flat, endpoint>>

\* lines 85-88: project_metric for one scenario of the group; what it raises
\* ends run_all_scenarios
RunScenario ==
    /\ rpc = "scenario"
    /\ \E call \in ProjectMetric(bitgen, frame.rng, CurSeries, MaxOf(cfg.time_horizons),
                                 cfg.variation[si][2], cfg.num_simulations) :
       LET name == cfg.variation[si][1]
           byMetric == DictGet(results, CurFacility)
       IN  /\ frame' = call.frame
           /\ result' = call.table
           /\ IF call.raised # ""
              THEN rpc' = "raised" /\ UNCHANGED <<fi, mi, si, results>>
              ELSE /\ results' =
                        DictSet(results, CurFacility,
                                DictSet(byMetric, CurMetric,
                                        DictSet(DictGet(byMetric, CurMetric), name,
                                                call.table)))
                   /\ IF si < Len(cfg.variation)
                      THEN si' = si + 1 /\ UNCHANGED <<rpc, fi, mi>>
                      ELSE si' = si /\ NextGroup
    /\ UNCHANGED <<bitgen, callerVars, raw_df, cfg, flat, endpoint>>

\* line 90
RunReturn ==
    /\ rpc = "facility"
    /\ fi > Len(Facilities(raw_df))
    /\ rpc' = "done"
    /\ UNCHANGED <<bitgen, frame, result, callerVars, raw_df, cfg, fi, mi, si, results,
                   flat, endpoint>>

----------------------------------------------------------------------------
(* The two views *)

\* one row per projection only (its first), not one per month
FlatRowsFirstOnly(facility, metric, scenario_name, proj_df) ==
    [k \in 1..(IF Len(proj_df) = 0 THEN 0 ELSE 1) |->
        [facility |-> facility,
         metric   |-> metric,
         scenario |-> scenario_name,
         month    |-> proj_df[k].month,
         p10      |-> proj_df[k].p10,
         median   |-> proj_df[k].median,
         p90      |-> proj_df[k].p90,
         mean     |-> proj_df[k].mean]]

\* the quartiles read for the outer percentiles: row["p25"], row["p75"]
FlatRowsQuartiles(facility, metric, scenario_name, proj_df) ==
    [k \in 1..Len(proj_df) |->
        [facility |-> facility,
         metric   |-> metric,
         scenario |-> scenario_name,
         month    |-> proj_df[k].month,
         p10      |-> proj_df[k].p25,
         median   |-> proj_df[k].median,
         p90      |-> proj_df[k].p75,
         mean     |-> proj_df[k].mean]]

\* lines 99-109: the rows of one projection, tagged with its keys
FlatRows(facility, metric, scenario_name, proj_df) ==
    [k \in 1..Len(proj_df) |->
        [facility |-> facility,
         metric   |-> metric,
         scenario |-> scenario_name,
         month    |-> proj_df[k].month,
         p10      |-> proj_df[k].p10,
         median   |-> proj_df[k].median,
         p90      |-> proj_df[k].p90,
         mean     |-> proj_df[k].mean]]

\* final = proj_df.iloc[0]: the first month taken for the last
EndpointRowFirstMonth(facility, metric, scenario_name, proj_df) ==
    LET final == proj_df[1]
    IN  [facility          |-> facility,
         metric            |-> metric,
         scenario          |-> scenario_name,
         projected_median  |-> final.median,
         projected_p10     |-> final.p10,
         projected_p90     |-> final.p90,
         uncertainty_range |-> Round2(FSub(final.p90, final.p10)),
         projection_months |-> Len(proj_df)]

\* lines 119-129: the row of one projection; iloc[-1] raises IndexError on an
\* empty projection
EndpointRow(facility, metric, scenario_name, proj_df) ==
    LET final == proj_df[Len(proj_df)]
    IN  [facility          |-> facility,
         metric            |-> metric,
         scenario          |-> scenario_name,
         projected_median  |-> final.median,
         projected_p10     |-> final.p10,
         projected_p90     |-> final.p90,
         uncertainty_range |-> Round2(FSub(final.p90, final.p10)),
         projection_months |-> Len(proj_df)]

\* the <<facility, metric, scenario_name, proj_df>> of the nested dict, in the
\* order the three nested loops of both views visit them
RECURSIVE ScenarioItems(_, _, _)
ScenarioItems(facility, metric, scenarios) ==
    IF scenarios = <<>> THEN <<>>
    ELSE <<<<facility, metric, Head(scenarios)[1], Head(scenarios)[2]>>>>
         \o ScenarioItems(facility, metric, Tail(scenarios))

RECURSIVE MetricItems(_, _)
MetricItems(facility, metrics) ==
    IF metrics = <<>> THEN <<>>
    ELSE ScenarioItems(facility, Head(metrics)[1], Head(metrics)[2])
         \o MetricItems(facility, Tail(metrics))

RECURSIVE ResultItems(_)
ResultItems(res) ==
    IF res = <<>> THEN <<>>
    ELSE MetricItems(Head(res)[1], Head(res)[2]) \o ResultItems(Tail(res))

RECURSIVE FlatOfItems(_)
FlatOfItems(items) ==
    IF items = <<>> THEN <<>>
    ELSE FlatRows(Head(items)[1], Head(items)[2], Head(items)[3], Head(items)[4])
         \o FlatOfItems(Tail(items))

\* scenarios_to_flat_df(results)
ScenariosToFlat(res) == FlatOfItems(ResultItems(res))

\* scenarios_endpoint_summary concatenating one frame per projection, which
\* raises ValueError when there is no projection to concatenate
EndpointSummaryConcat(res) ==
    LET items == ResultItems(res)
    IN  IF items = <<>>
        THEN [raised |-> "ValueError", rows |-> <<>>]
        ELSE IF \E i \in 1..Len(items) : Len(items[i][4]) = 0
        THEN [raised |-> "IndexError", rows |-> <<>>]
        ELSE [raised |-> "",
              rows   |-> [i \in 1..Len(items) |->
                            EndpointRow(items[i][1], items[i][2], items[i][3],
                                        items[i][4])]]

\* scenarios_endpoint_summary(results): the exception raised ("" when none)
\* and the rows
ScenariosEndpointSummary(res) ==
    LET items == ResultItems(res)
    IN  IF \E i \in 1..Len(items) : Len(items[i][4]) = 0
        THEN [raised |-> "IndexError", rows |-> <<>>]
        ELSE [raised |-> "",
              rows   |-> [i \in 1..Len(items) |->
                            EndpointRow(items[i][1], items[i][2], items[i][3],
                                        items[i][4])]]

\* the flat view built by popping the facilities off results as it goes
FlatViewConsuming ==
    /\ rpc = "done"
    /\ flat' = <<ScenariosToFlat(results)>>
    /\ results' = <<>>
    /\ UNCHANGED <<bitgen, frame, result, callerVars, raw_df, cfg, rpc, fi, mi, si,
                   endpoint>>

\* a caller builds the flat view of the returned results
FlatView ==
    /\ rpc = "done"
    /\ flat' = <<ScenariosToFlat(results)>>
    /\ UNCHANGED <<bitgen, frame, result, callerVars, raw_df, cfg, rpc, fi, mi, si,
                   results, endpoint>>

\* a caller builds the endpoint view of the returned results
EndpointView ==
    /\ rpc = "done"
    /\ endpoint' = <<ScenariosEndpointSummary(results)>>
    /\ UNCHANGED <<bitgen, frame, result, callerVars, raw_df, cfg, rpc, fi, mi, si,
                   results, flat>>

----------------------------------------------------------------------------
(* The datasets and configurations run_all_scenarios is run on *)

Row(facility, metric, date, value) ==
    [facility |-> facility, metric |-> metric, date |-> date, value |-> value]

\* the rows datasets are made of: two groups, neither in date order
RowPool ==
    << Row("A", "x", 2, 1020), Row("B", "y", 3, 5100), Row("A", "x", 1, 1000),
       Row("A", "x", 4, 1050), Row("B", "y", 1, 5000), Row("A", "x", 3, 1010),
       Row("B", "y", 2, 4900) >>

\* the rows of the pool at the positions of keep, in the pool's order
Pick(keep) == SelectSeq([i \in 1..Len(RowPool) |-> <<i, RowPool[i]>>],
                        LAMBDA p : p[1] \in keep)

Datasets == { [i \in 1..Len(Pick(keep)) |-> Pick(keep)[i][2]] :
                 keep \in SUBSET (1..Len(RowPool)) }

\* scenario name -> multiplier (halves), in the order of the settings file
VariationSets ==
    { <<>>,
      << <<"baseline", 2>> >>,
      << <<"optimistic", 3>>, <<"baseline", 2>>, <<"worst_case", -1>> >> }

HorizonLists == { <<>>, <<-1>>, <<0>>, <<1>>, <<1, 2>> }

Configs ==
    [variation : VariationSets, num_simulations : SimArgs, time_horizons : HorizonLists]

InitRun ==
    /\ bitgen \in BitGens
    /\ series = <<>>
    /\ num_sims = 0
    /\ pc = "idle"
    /\ frame = IdleFrame
    /\ result = <<>>
    /\ first = <<>>
    /\ raw_df \in Datasets
    /\ cfg \in Configs
    /\ rpc = "begin"
    /\ fi = 0
    /\ mi = 0
    /\ si = 0
    /\ results = <<>>
    /\ flat = <<>>
    /\ endpoint = <<>>

NextRun ==
    \/ RunBegin
    \/ EnterFacility
    \/ SkipGroup
    \/ EnterGroup
    \/ RunScenario
    \/ RunReturn
    \/ FlatView
    \/ EndpointView

SpecRun == InitRun /\ [][NextRun]_vars

----------------------------------------------------------------------------
(* run_all_scenarios with its simulations completing in any order: the     *)
(* loops of lines 71-84 build the facility and group entries and hand out  *)
(* one task per scenario of a surviving group; each task is the call and   *)
(* the keyed write of lines 86-88, and the tasks complete one at a time in *)
(* any order                                                               *)

\* results[facility][metric] exists and holds no projection for scenario i yet
Pending(res, facility, metric, i) ==
    /\ HasKey(res, facility)
    /\ HasKey(DictGet(res, facility), metric)
    /\ ~HasKey(DictGet(DictGet(res, facility), metric), cfg.variation[i][1])

\* results[facility][metric][scenario_name] = table
Merge(res, facility, metric, scenario_name, table) ==
    LET byMetric == DictGet(res, facility)
    IN  DictSet(res, facility,
                DictSet(byMetric, metric,
                        DictSet(DictGet(byMetric, metric), scenario_name, table)))

\* lines 75-84 with the scenarios of the group handed out instead of run
SubmitGroup ==
    /\ rpc = "metric"
    /\ ~TooShort(CurSeries)
    /\ results' = DictSet(results, CurFacility,
                          DictSet(DictGet(results, CurFacility), CurMetric, <<>>))
    /\ NextGroup
    /\ UNCHANGED <<bitgen, frame, result, callerVars, raw_df, cfg, si, flat, endpoint>>

\* the loops are over: the tasks handed out are awaited
AwaitAll ==
    /\ rpc = "facility"
    /\ fi > Len(Facilities(raw_df))
    /\ rpc' = "merge"
    /\ UNCHANGED <<bitgen, frame, result, callerVars, raw_df, cfg, fi, mi, si, results,
                   flat, endpoint>>

\* lines 86-88 for one task: project_metric runs, with whatever the call
\* before it left behind, and its table is merged; what it raises ends the run
Complete(facility, metric, i) ==
    /\ rpc = "merge"
    /\ Pending(results, facility, metric, i)
    /\ \E call \in ProjectMetric(bitgen, frame.rng, GroupSeries(raw_df, facility, metric),
                                 MaxOf(cfg.time_horizons), cfg.variation[i][2],
                                 cfg.num_simulations) :
          /\ frame' = call.frame
          /\ result' = call.table
          /\ IF call.raised # ""
             THEN rpc' = "raised" /\ results' = results
             ELSE /\ rpc' = rpc
                  /\ results' = Merge(results, facility, metric, cfg.variation[i][1],
                                      call.table)
    /\ UNCHANGED <<bitgen, callerVars, raw_df, cfg, fi, mi, si, flat, endpoint>>

\* every task has completed: line 90
MergeReturn ==
    /\ rpc = "merge"
    /\ \A f \in 1..Len(Facilities(raw_df)), m \in 1..Len(Metrics(raw_df)),
          i \in 1..Len(cfg.variation) :
          ~Pending(results, Facilities(raw_df)[f], Metrics(raw_df)[m], i)
    /\ rpc' = "done"
    /\ UNCHANGED <<bitgen, frame, result, callerVars, raw_df, cfg, fi, mi, si, results,
                   flat, endpoint>>

\* lines 70-90 as a function of the loops' position, on dataset df under
\* configuration c: what the sequential loops add to res from facility f,
\* metric m (0: the facility is being entered) and scenario s (0: the group
\* is being entered) on, rng being what the call before left behind, when no
\* call raises
RECURSIVE SequentialLoopOn(_, _, _, _, _, _, _, _)
SequentialLoopOn(df, c, gen, rng, res, f, m, s) ==
    LET facility == Facilities(df)[f]
        metric   == Metrics(df)[m]
        hist     == GroupSeries(df, facility, metric)
        call     == CHOOSE o \in ProjectMetric(gen, rng, hist, MaxOf(c.time_horizons),
                                               c.variation[s][2], c.num_simulations) :
                        o.raised = ""
    IN  IF f > Len(Facilities(df)) THEN res
        ELSE IF m = 0
        THEN SequentialLoopOn(df, c, gen, rng, DictSet(res, facility, <<>>), f, 1, 0)
        ELSE IF m > Len(Metrics(df))
        THEN SequentialLoopOn(df, c, gen, rng, res, f + 1, 0, 0)
        ELSE IF s = 0
        THEN IF TooShort(hist)
             THEN SequentialLoopOn(df, c, gen, rng, res, f, m + 1, 0)
             ELSE SequentialLoopOn(df, c, gen, rng,
                                   DictSet(res, facility,
                                           DictSet(DictGet(res, facility), metric, <<>>)),
                                   f, m, 1)
        ELSE IF s > Len(c.variation)
        THEN SequentialLoopOn(df, c, gen, rng, res, f, m + 1, 0)
        ELSE SequentialLoopOn(df, c, gen, call.frame.rng,
                              Merge(res, facility, metric, c.variation[s][1], call.table),
                              f, m, s + 1)

\* the same on the dataset and under the configuration of the run
SequentialLoop(gen, rng, res, f, m, s) ==
    SequentialLoopOn(raw_df, cfg, gen, rng, res, f, m, s)

\* the mapping the sequential run_all_scenarios returns on the dataset
SequentialResults == SequentialLoop(bitgen, 0, <<>>, 1, 0, 0)

\* the whole pool, and the pool less its first or its second row: both
\* groups survive, or the second falls short
AnyOrderDatasets ==
    {d \in Datasets : \E drop \in 0..2 :
        d = SelectSeq(RowPool, LAMBDA r : drop = 0 \/ r # RowPool[drop])}

InitAnyOrder == InitRun /\ raw_df \in AnyOrderDatasets

NextAnyOrder ==
    \/ RunBegin
    \/ EnterFacility
    \/ SkipGroup
    \/ SubmitGroup
    \/ AwaitAll
    \/ \E f \in 1..Len(Facilities(raw_df)), m \in 1..Len(Metrics(raw_df)),
          i \in 1..Len(cfg.variation) :
          Complete(Facilities(raw_df)[f], Metrics(raw_df)[m], i)
    \/ MergeReturn

SpecAnyOrder == InitAnyOrder /\ [][NextAnyOrder]_vars

----------------------------------------------------------------------------
(* run_all_scenarios on the same rows in every order *)

\* the first five rows of the pool, in every order: a group of three
\* observations and a group of two
ShuffledDatasets ==
    {[i \in 1..5 |-> RowPool[p[i]]] : p \in Permutations(1..5)}

InitShuffled ==
    /\ bitgen \in BitGens
    /\ series = <<>>
    /\ num_sims = 0
    /\ pc = "idle"
    /\ frame = IdleFrame
    /\ result = <<>>
    /\ first = <<>>
    /\ raw_df \in ShuffledDatasets
    /\ cfg \in Configs
    /\ rpc = "begin"
    /\ fi = 0
    /\ mi = 0
    /\ si = 0
    /\ results = <<>>
    /\ flat = <<>>
    /\ endpoint = <<>>

SpecShuffled == InitShuffled /\ [][NextRun]_vars

----------------------------------------------------------------------------
(* Properties of project_metric *)

\* the call that has just returned was made after the first one returned
LaterCall == pc = "returned" /\ first # <<>> /\ first[1].again

\* ... with the horizon of the first call
SameHorizon == LaterCall /\ frame.months_ahead = first[1].months_ahead

\* the caller keeps the contract of project_metric: a series of at least two
\* points, months_ahead >= 1 and num_simulations >= 1
ValidCall ==
    Len(frame.historical) >= 2 /\ frame.months_ahead >= 1 /\ frame.num_simulations >= 1

\* C1. Determinism: a call with the arguments of the first call returns the
\* table the first call returned, cell for cell, whatever calls were made
\* between the two.
Determinism ==
    (SameHorizon /\ frame.scenario_multiplier = first[1].scenario_multiplier)
        => result = first[1].result

DeterminismWitness ==
    /\ SameHorizon
    /\ frame.scenario_multiplier = first[1].scenario_multiplier
    /\ ValidCall
    /\ frame.num_simulations >= 2
    /\ result[1].std > 0

\* C2. Horizon length: a call with months_ahead = N >= 1 returns exactly N
\* rows, whose month values are 1, 2, ..., N in that order.
HorizonLength ==
    (pc = "returned" /\ frame.months_ahead >= 1)
        => /\ Len(result) = frame.months_ahead
           /\ \A k \in 1..Len(result) : result[k].month = k

HorizonLengthWitness ==
    pc = "returned" /\ frame.months_ahead = MaxMonths /\ Len(result) = MaxMonths

RowMonotone(row) ==
    /\ FLeq(row.p10, row.p25)
    /\ FLeq(row.p25, row.median)
    /\ FLeq(row.median, row.p75)
    /\ FLeq(row.p75, row.p90)

InvalidConfigurationRaises ==
    (frame.months_ahead < 1 \/ frame.num_simulations < 1)
        => (pc # "returned" /\ (pc = "raised" => frame.rng = 0))

\* the first call was made with multiplier 0 and this one with a positive
\* multiplier, on a series whose trend is positive
DriftRaised ==
    /\ SameHorizon
    /\ frame.months_ahead >= 1
    /\ frame.num_simulations >= 1
    /\ frame.trend > 0
    /\ first[1].scenario_multiplier = 0
    /\ frame.scenario_multiplier > 0

FinalMedian(table) == table[Len(table)].median

\* C9 as stated. Trend-sign effect: raising the multiplier from 0 to a
\* positive value strictly increases the reported median of the final month.
TrendSignStrict ==
    DriftRaised => FinalMedian(result) > FinalMedian(first[1].result)

\* C9 as amended. Raising the multiplier from 0 to a positive value never
\* decreases the reported median of the final month, and strictly increases
\* it when the drift accumulated over the horizon exceeds 0.01, the step of
\* the rounding.
TrendSignRounded ==
    DriftRaised =>
        /\ FinalMedian(result) >= FinalMedian(first[1].result)
        /\ (frame.months_ahead * Drift(frame.trend, frame.scenario_multiplier) > 10
               => FinalMedian(result) > FinalMedian(first[1].result))

TrendSignRoundedWitness ==
    /\ DriftRaised
    /\ frame.months_ahead * Drift(frame.trend, frame.scenario_multiplier) > 10
    /\ FinalMedian(result) > FinalMedian(first[1].result)

\* C15. Degenerate trend: the trend of every call is a number (no division
\* by zero); and a call with valid months_ahead and num_simulations on a
\* series whose trailing window has a single element (a one-point series)
\* does not raise, uses trend = 0 and applies a drift of 0 whatever its
\* multiplier, returning its months_ahead rows.
DegenerateTrend ==
    /\ ~IsNaN(frame.trend)
    /\ (/\ Len(RecentWindow(frame.historical)) = 1
        /\ frame.months_ahead >= 1
        /\ frame.num_simulations >= 1)
          => /\ pc # "raised"
             /\ frame.trend = 0
             /\ Drift(frame.trend, frame.scenario_multiplier) = 0
             /\ pc = "returned" => Len(result) = frame.months_ahead

DegenerateTrendWitness ==
    /\ pc = "returned"
    /\ Len(frame.historical) = 1
    /\ frame.months_ahead = MaxMonths
    /\ frame.num_simulations = MaxSims
    /\ frame.scenario_multiplier = 2
    /\ frame.rng = MaxMonths * MaxSims
    /\ Len(result) = MaxMonths

\* the number of observations the trend is taken over: min(6, len(historical))
WindowCount(historical) ==
    IF Len(historical) < TrendWindow THEN Len(historical) ELSE TrendWindow

\* C16. Trend estimation: for a series of at least two observations the
\* trend of a call is (last - first) / (count - 1), first being the
\* observation count - 1 places before the last and count = min(6,
\* len(historical)); no earlier observation enters it.
TrendEstimation ==
    (pc # "idle" /\ Len(frame.historical) >= 2) =>
        LET h     == frame.historical
            count == WindowCount(h)
        IN  frame.trend = DivRound(h[Len(h)] - h[Len(h) - count + 1], count - 1)

\* a call on a series longer than the window, whose slope over the window
\* and whose slope over the whole series have opposite signs
TrendEstimationWitness ==
    /\ pc = "returned"
    /\ Len(frame.historical) > TrendWindow
    /\ frame.trend > 0
    /\ frame.historical[1] > frame.historical[Len(frame.historical)]
    /\ frame.rng > 0

\* the cells of the matrix the loops of the call have written so far: path i
\* (from 1), month k (from 1)
FilledCells ==
    {c \in (1..frame.num_simulations) \X (1..frame.months_ahead) :
        (c[1] - 1) * frame.months_ahead + (c[2] - 1) < frame.rng}

\* the place in the generator's stream of the draw made for a cell
DrawPosition(c) == (c[1] - 1) * frame.months_ahead + (c[2] - 1)

\* the noise that went into a cell: the cell less the drift and less the
\* cell of the month before on its path (the start, in month 1)
CellNoise(c) ==
    frame.simulations[c[1]][c[2]]
        - (IF c[2] = 1 THEN frame.start ELSE frame.simulations[c[1]][c[2] - 1])
        - Drift(frame.trend, frame.scenario_multiplier)

\* the call under way, or the last one, got past line 38 on a series of at
\* least two observations
Simulating == pc \in {"loop", "returned"} /\ Len(frame.historical) >= 2

\* C17. Volatility estimation: the std of a call is the standard deviation
\* (sample or population) of its whole series, not of the trailing window;
\* the noise in every cell is a draw of the generator scaled by std x 0.3,
\* whatever the multiplier; and two calls on the series with the same horizon
\* and different multipliers report the same std in every row.
VolatilityEstimation ==
    /\ Simulating =>
          /\ frame.std \in {StdDev(frame.historical, 0), StdDev(frame.historical, 1)}
          /\ \A c \in FilledCells :
                CellNoise(c) = DivRound(DivRound(frame.std * 3, 10)
                                          * StandardNormal(bitgen, DrawPosition(c)), 10)
    /\ (SameHorizon /\ ValidCall) =>
          \A k \in 1..Len(result) : result[k].std = first[1].result[k].std

\* two calls with different multipliers have returned on the series whose
\* deviation over the window is far below its deviation over the whole
VolatilityEstimationWitness ==
    /\ SameHorizon
    /\ ValidCall
    /\ Len(frame.historical) > TrendWindow
    /\ frame.std > 10 * StdDev(RecentWindow(frame.historical), 1)
    /\ frame.scenario_multiplier # first[1].scenario_multiplier
    /\ frame.num_simulations >= 2
    /\ result[1].std > 0

\* C18. Path generation: every cell written holds the cell of the month
\* before on the same path (the last historical value, in month 1) plus
\* trend x scenario_multiplier plus the noise of its own draw; the draws made
\* are as many as the cells written, one per (path, month), each cell with
\* its own place in the stream; no cell of another path enters a path.
PathGeneration ==
    Simulating =>
        /\ frame.rng = Cardinality(FilledCells)
        /\ \A c, d \in FilledCells : DrawPosition(c) = DrawPosition(d) => c = d
        /\ \A c \in FilledCells :
              LET h     == frame.historical
                  prev  == IF c[2] = 1 THEN h[Len(h)]
                           ELSE frame.simulations[c[1]][c[2] - 1]
                  noise == Normal(bitgen, DrawPosition(c), NoiseScale(frame.std))
              IN  frame.simulations[c[1]][c[2]]
                      = prev + Drift(frame.trend, frame.scenario_multiplier) + noise

\* a call has returned whose paths, of several months each, came apart from
\* their first month on, under a drift that is not 0
PathGenerationWitness ==
    /\ pc = "returned"
    /\ Len(frame.historical) >= 2
    /\ frame.num_simulations = MaxSims
    /\ frame.months_ahead = MaxMonths
    /\ Drift(frame.trend, frame.scenario_multiplier) # 0
    /\ frame.simulations[1][1] # frame.simulations[2][1]
    /\ frame.simulations[1][MaxMonths] # frame.simulations[2][1]

\* the values of every path in month k
MonthValues(k) == [i \in 1..frame.num_simulations |-> frame.simulations[i][k]]

\* a number of thousandths with at most 2 decimals
TwoDecimals(v) == v % 10 = 0

\* C19. Aggregation and rounding: in row k of the table a call returns, p10,
\* p25, median, p75 and p90 are the 10th, 25th, 50th, 75th and 90th
\* percentiles, mean the mean and std the (population) standard deviation of
\* the values of all the paths in month k and of no other month, each rounded
\* to 2 decimals.
AggregationRounding ==
    (pc = "returned" /\ ValidCall) =>
        \A k \in 1..Len(result) :
            LET col == MonthValues(k)
                row == result[k]
            IN  /\ row.p10 = Round2(Percentile(col, 10))
                /\ row.p25 = Round2(Percentile(col, 25))
                /\ row.median = Round2(Percentile(col, 50))
                /\ row.p75 = Round2(Percentile(col, 75))
                /\ row.p90 = Round2(Percentile(col, 90))
                /\ row.mean = Round2(Mean(col))
                /\ row.std = Round2(StdDev(col, 0))
                /\ \A v \in {row.p10, row.p25, row.median, row.p75, row.p90,
                             row.mean, row.std} : TwoDecimals(v)

\* a call has returned a table of several months whose second month differs
\* from the first and has a percentile the rounding changed
AggregationRoundingWitness ==
    /\ pc = "returned"
    /\ ValidCall
    /\ frame.num_simulations = MaxSims
    /\ frame.months_ahead >= 2
    /\ result[2].median # result[1].median
    /\ result[2].std > 0
    /\ ~TwoDecimals(Percentile(MonthValues(2), 10))
    /\ result[2].p10 # Percentile(MonthValues(2), 10)

\* what the drift of multiplier m2 adds over the drift of multiplier m1 in k
\* months on the series of the call: trend x (m2 - m1) x k
DriftShift(m1, m2, k) == k * (Drift(frame.trend, m2) - Drift(frame.trend, m1))

ConstantSeries ==
    \A i \in 1..Len(frame.historical) : frame.historical[i] = frame.historical[1]

\* every statistic of the row but std is v, and std is 0
FlatRow(row, v) ==
    /\ row.p10 = v
    /\ row.p25 = v
    /\ row.median = v
    /\ row.p75 = v
    /\ row.p90 = v
    /\ row.mean = v
    /\ row.std = 0

\* C25 as stated. Zero-volatility series: for a constant series of length
\* >= 2, every multiplier and every month, p10 = p25 = median = p75 = p90 =
\* mean = the last historical value, and std = 0.
ZeroVolatilityExact ==
    (pc = "returned" /\ ValidCall /\ ConstantSeries) =>
        \A k \in 1..Len(result) :
            FlatRow(result[k], frame.historical[Len(frame.historical)])

\* C25 as amended. For a constant series of length >= 2 the std and the
\* trend of the call are 0 and every path stays at the constant, so for
\* every multiplier and every month p10 = p25 = median = p75 = p90 = mean =
\* the last historical value rounded to 2 decimals, and std = 0.
ZeroVolatilityRounded ==
    (pc = "returned" /\ ValidCall /\ ConstantSeries) =>
        LET last == frame.historical[Len(frame.historical)]
        IN  /\ frame.std = 0
            /\ frame.trend = 0
            /\ \A i \in 1..frame.num_simulations, k \in 1..frame.months_ahead :
                  frame.simulations[i][k] = last
            /\ \A k \in 1..Len(result) : FlatRow(result[k], Round2(last))

\* a call of several paths and months with a multiplier other than 0 has
\* returned on the constant 1.234, which the rounding brings to 1.23
ZeroVolatilityRoundedWitness ==
    /\ pc = "returned"
    /\ ConstantSeries
    /\ frame.historical[1] = 1234
    /\ frame.num_simulations = MaxSims
    /\ frame.months_ahead = MaxMonths
    /\ frame.scenario_multiplier = 2
    /\ result[MaxMonths].median = 1230

\* C26. Draw order and termination: a call starts with a generator at the
\* head of its stream; the j-th draw (from 0) goes into the cell of path
\* j div months_ahead and month (j mod months_ahead) + 1 and into no other
\* cell, so the draws run through the paths one after the other; the call
\* returns after exactly num_simulations x months_ahead draws; and a call
\* that has entered its loops always comes to their end, all its draws made.
DrawOrder ==
    /\ [][/\ (pc # "loop" /\ pc' = "loop") => frame'.rng = 0
          /\ (pc = "loop" /\ pc' = "loop") =>
                LET j     == frame.rng
                    i     == (j \div frame.months_ahead) + 1
                    k     == (j % frame.months_ahead) + 1
                    prev  == IF k = 1 THEN frame.start ELSE frame.simulations[i][k - 1]
                    noise == Normal(bitgen, j, NoiseScale(frame.std))
                    value == FAdd(prev + Drift(frame.trend, frame.scenario_multiplier),
                                  noise)
                IN  /\ frame'.rng = j + 1
                    /\ frame'.simulations = [frame.simulations EXCEPT ![i][k] = value]
          /\ (pc = "loop" /\ pc' = "returned") =>
                frame.rng = frame.num_simulations * frame.months_ahead]_vars
    /\ (pc = "loop") ~> (/\ ~LoopPending(frame)
                          /\ frame.rng = frame.num_simulations * frame.months_ahead)

\* a call of the most paths and months has returned, all its draws made
DrawOrderWitness ==
    /\ pc = "returned"
    /\ frame.num_simulations = MaxSims
    /\ frame.months_ahead = MaxMonths
    /\ frame.rng = MaxSims * MaxMonths
    /\ Len(frame.historical) >= 2
    /\ frame.simulations[MaxSims][1] # frame.simulations[1][MaxMonths]

----------------------------------------------------------------------------
(* The scenario A/B example at its own size *)

ExampleSeries == <<100000, 102000, 104000, 106000, 108000, 110000>>

\* the caller of the example: the series above, 500 simulations, 3 months,
\* and the multipliers 1.0 and -1.0 in any order, any number of times
InitExample ==
    /\ bitgen \in BitGens
    /\ series = ExampleSeries
    /\ num_sims = 500
    /\ pc = "idle"
    /\ frame = IdleFrame
    /\ result = <<>>
    /\ first = <<>>
    /\ RunOff

NextExample ==
    \/ \E m \in {-2, 2} : Call(3, m)
    \/ Draw
    \/ Return

SpecExample == InitExample /\ [][NextExample]_vars

\* C10. Scenario A/B example: for the series [100, 102, 104, 106, 108, 110]
\* (trend 2), 3 months and 500 simulations, the month-3 median under
\* multiplier 1.0 exceeds the one under multiplier -1.0 by 12, to within the
\* rounding of the two medians (0.01).
ExampleDifference ==
    (/\ SameHorizon
     /\ frame.months_ahead = 3
     /\ first[1].scenario_multiplier = -2
     /\ frame.scenario_multiplier = 2)
        => LET d == result[3].median - first[1].result[3].median
           IN  /\ frame.trend = 2000
               /\ d >= 12000 - 10
               /\ d <= 12000 + 10

ExampleDifferenceWitness ==
    /\ SameHorizon
    /\ frame.months_ahead = 3
    /\ frame.num_simulations = 500
    /\ first[1].scenario_multiplier = -2
    /\ frame.scenario_multiplier = 2
    /\ result[3].median > first[1].result[3].median
    /\ result[3].p10 < result[3].p90

----------------------------------------------------------------------------
(* Properties of run_all_scenarios and of the views *)

\* the number of rows the dataset holds for a facility and a metric
Observations(facility, metric) ==
    Cardinality({i \in 1..Len(raw_df) : IsGroupRow(raw_df[i], facility, metric)})

\* results[facility][metric] exists
HasEntry(facility, metric) ==
    HasKey(results, facility) /\ HasKey(DictGet(results, facility), metric)

PoolFacilities == {RowPool[i].facility : i \in 1..Len(RowPool)}

PoolMetrics == {RowPool[i].metric : i \in 1..Len(RowPool)}

\* the configured horizon, max(time_horizons)
Horizon == MaxOf(cfg.time_horizons)

\* C4. Skip policy: in the mapping run_all_scenarios returns, a (facility,
\* metric) pair has an entry if and only if the dataset holds at least 3
\* observations of it; and a run that raises was given a configuration with
\* no horizon, a negative horizon or no simulation, never just a short group.
SkipPolicy ==
    /\ rpc = "done" =>
          \A f \in PoolFacilities, m \in PoolMetrics :
              HasEntry(f, m) <=> Observations(f, m) >= 3
    /\ rpc = "raised" =>
          \/ cfg.time_horizons = <<>>
          \/ Horizon < 0
          \/ cfg.num_simulations < 1

SkipPolicyWitness ==
    /\ rpc = "done"
    /\ \E f \in PoolFacilities, m \in PoolMetrics :
          Observations(f, m) = 3 /\ HasEntry(f, m)
    /\ \E f \in PoolFacilities, m \in PoolMetrics :
          Observations(f, m) = 2 /\ ~HasEntry(f, m)

\* C6. No partial results on a failed configuration: with a horizon < 1 or
\* num_simulations < 1, run_all_scenarios returns no mapping (it raises).
NoResultsOnInvalidConfiguration ==
    (cfg.time_horizons # <<>> /\ (Horizon < 1 \/ cfg.num_simulations < 1))
        => rpc # "done"

\* the projection stored for the keys of a view's row
StoredProjection(row) ==
    DictGet(DictGet(DictGet(results, row.facility), row.metric), row.scenario)

\* the <<facility, metric, scenario>> triples results holds
StoredTriples ==
    UNION { UNION { { <<results[i][1], results[i][2][j][1], results[i][2][j][2][k][1]>> :
                        k \in 1..Len(results[i][2][j][2]) } :
                    j \in 1..Len(results[i][2]) } :
            i \in 1..Len(results) }

RowsOf(table, triple) ==
    {i \in 1..Len(table) :
        <<table[i].facility, table[i].metric, table[i].scenario>> = triple}

\* C7. Endpoint consistency: every triple of results has one row in the
\* endpoint summary, and the row's projected_median, projected_p10 and
\* projected_p90 are the median, p10 and p90 of the last row of the triple's
\* projection and its uncertainty_range is round(p90 - p10, 2) of that row.
EndpointConsistency ==
    (endpoint # <<>> /\ endpoint[1].raised = "") =>
        LET rows == endpoint[1].rows
        IN  /\ \A t \in StoredTriples : Cardinality(RowsOf(rows, t)) = 1
            /\ \A i \in 1..Len(rows) :
                  LET proj == StoredProjection(rows[i])
                      last == proj[Len(proj)]
                  IN  /\ rows[i].projected_median = last.median
                      /\ rows[i].projected_p10 = last.p10
                      /\ rows[i].projected_p90 = last.p90
                      /\ rows[i].uncertainty_range = Round2(FSub(last.p90, last.p10))

EndpointConsistencyWitness ==
    /\ endpoint # <<>>
    /\ endpoint[1].raised = ""
    /\ \E i \in 1..Len(endpoint[1].rows) :
          LET proj == StoredProjection(endpoint[1].rows[i])
          IN  /\ Len(proj) >= 2
              /\ proj[1].median # proj[Len(proj)].median
              /\ endpoint[1].rows[i].uncertainty_range > 0

\* the groups of the dataset that hold at least 3 observations
SurvivingGroups ==
    {<<f, m>> \in PoolFacilities \X PoolMetrics : Observations(f, m) >= 3}

\* C8. Flattening: the flat table holds, for each surviving group, one row
\* per scenario and month (groups x scenarios x months_ahead rows in all),
\* and no two rows share a (facility, metric, scenario, month) key.
FlatteningCount ==
    flat # <<>> =>
        LET rows == flat[1]
        IN  /\ Len(rows) = IF SurvivingGroups = {} \/ cfg.variation = <<>> THEN 0
                           ELSE Cardinality(SurvivingGroups) * Len(cfg.variation) * Horizon
            /\ \A i, j \in 1..Len(rows) :
                  (/\ rows[i].facility = rows[j].facility
                   /\ rows[i].metric = rows[j].metric
                   /\ rows[i].scenario = rows[j].scenario
                   /\ rows[i].month = rows[j].month) => i = j

FlatteningCountWitness ==
    /\ flat # <<>>
    /\ Cardinality(SurvivingGroups) = 2
    /\ Len(cfg.variation) = 3
    /\ Horizon = 2
    /\ Len(flat[1]) = 12

\* the projections results holds
StoredProjections ==
    {ResultItems(results)[i][4] : i \in 1..Len(ResultItems(results))}

\* C11. Shared horizon: every projection run_all_scenarios has stored in
\* results has exactly max(time_horizons) rows (a length that is one of the
\* configured horizons and that no configured horizon exceeds), so all the
\* scenarios of a group, and all the groups, have the same length.
SharedHorizon ==
    \A proj \in StoredProjections :
        /\ \E i \in 1..Len(cfg.time_horizons) : cfg.time_horizons[i] = Len(proj)
        /\ \A i \in 1..Len(cfg.time_horizons) : cfg.time_horizons[i] <= Len(proj)

SharedHorizonWitness ==
    /\ rpc = "done"
    /\ cfg.time_horizons = <<1, 2>>
    /\ Cardinality(StoredTriples) = 6
    /\ \A proj \in StoredProjections : Len(proj) = 2

\* C12. No side effects on inputs: no step of run_all_scenarios changes the
\* dataset (its rows, their order, their values); the series a project_metric
\* call was given is the same when the call ends, by return or by exception;
\* and the table a call returns is the one the arguments, the configuration
\* and the seed's stream from its head determine, whatever the previous call
\* left behind.
NoSideEffects ==
    [][/\ raw_df' = raw_df
       /\ cfg' = cfg
       /\ rpc = "scenario" =>
             /\ frame'.historical = CurSeries
             /\ rpc' # "raised" =>
                   result' \in {c.table : c \in
                                   ProjectMetric(bitgen, 0, CurSeries, Horizon,
                                                 cfg.variation[si][2],
                                                 cfg.num_simulations)}]_vars

\* a call has run its loops on a series the dataset does not hold in date
\* order, after another call had drawn from its own generator, and
\* run_all_scenarios has returned
NoSideEffectsWitness ==
    /\ rpc = "done"
    /\ Cardinality(StoredTriples) = 6
    /\ frame.rng = 4
    /\ Len(frame.historical) = 3
    /\ \E i, j \in 1..Len(raw_df) :
          /\ i < j
          /\ raw_df[i].facility = raw_df[j].facility
          /\ raw_df[i].metric = raw_df[j].metric
          /\ raw_df[i].date > raw_df[j].date

\* C13. The results are read-only once returned: a call of either view leaves
\* the nested mapping and every projection in it unchanged, and a view called
\* again, after any calls of either view, gives the table it gave before.
ViewsReadOnly ==
    [][rpc = "done" =>
          /\ results' = results
          /\ flat # <<>> => flat' = flat
          /\ endpoint # <<>> => endpoint' = endpoint]_vars

\* both views have been called on results that hold six projections of two
\* months
ViewsReadOnlyWitness ==
    /\ rpc = "done"
    /\ flat # <<>>
    /\ endpoint # <<>>
    /\ Len(flat[1]) = 12
    /\ endpoint[1].raised = ""
    /\ Len(endpoint[1].rows) = 6
    /\ flat[1] = ScenariosToFlat(results)
    /\ endpoint[1] = ScenariosEndpointSummary(results)

\* a dict as the set of its items: dict equality disregards insertion order
Items(d) == {d[i] : i \in 1..Len(d)}

\* the nested results compared as Python compares dicts
AsMapping(res) ==
    {<<res[i][1], {<<res[i][2][j][1], Items(res[i][2][j][2])>> :
                      j \in 1..Len(res[i][2])}>> : i \in 1..Len(res)}

\* the sequential loops build the mapping SequentialResults gives
SequentialAgrees == rpc = "done" => results = SequentialResults

\* C14. Order independence of assembly: when the simulations of the
\* (facility, metric, scenario) triples complete and are merged in any
\* order, the merge being the only writer, the mapping returned is the one
\* the sequential loop of run_all_scenarios builds on the same dataset.
OrderIndependence ==
    rpc = "done" => AsMapping(results) = AsMapping(SequentialResults)

\* six simulations have completed in another order than the sequential one
OrderIndependenceWitness ==
    /\ rpc = "done"
    /\ Cardinality(StoredTriples) = 6
    /\ results # SequentialResults
    /\ Horizon = 2
    /\ cfg.num_simulations = 2
    /\ \A proj \in StoredProjections : proj[1].std > 0

\* the projection results holds for a triple
ProjectionOf(triple) ==
    DictGet(DictGet(DictGet(results, triple[1]), triple[2]), triple[3])

FlatColumns == {"facility", "metric", "scenario", "month", "p10", "median", "p90", "mean"}

\* C20. Flat view content: for every (facility, metric, scenario) triple of
\* results and every month of its projection the flat table has exactly one
\* row with that triple and that month, which carries the p10, median, p90
\* and mean of that row of the projection; the table has no other row, and
\* its columns are the triple, month, p10, median, p90 and mean (no p25, p75
\* or std).
FlatContent ==
    flat # <<>> =>
        LET rows == flat[1]
        IN  /\ \A t \in StoredTriples :
                  \A k \in 1..Len(ProjectionOf(t)) :
                      LET proj == ProjectionOf(t)[k]
                          hits == {i \in RowsOf(rows, t) : rows[i].month = proj.month}
                      IN  /\ Cardinality(hits) = 1
                          /\ \A i \in hits :
                                /\ rows[i].p10 = proj.p10
                                /\ rows[i].median = proj.median
                                /\ rows[i].p90 = proj.p90
                                /\ rows[i].mean = proj.mean
            /\ \A i \in 1..Len(rows) :
                  /\ DOMAIN rows[i] = FlatColumns
                  /\ <<rows[i].facility, rows[i].metric, rows[i].scenario>> \in StoredTriples
                  /\ rows[i].month \in 1..Len(StoredProjection(rows[i]))

\* the flat table of six projections of two months, one of which has
\* percentiles that differ from one another and from one month to the next
FlatContentWitness ==
    /\ flat # <<>>
    /\ Cardinality(StoredTriples) = 6
    /\ Len(flat[1]) = 12
    /\ \E t \in StoredTriples :
          LET proj == ProjectionOf(t)
          IN  /\ Len(proj) = 2
              /\ proj[1].p10 < proj[1].p25
              /\ proj[1].p75 < proj[1].p90
              /\ proj[1].median # proj[2].median

\* C21. Endpoint view shape: scenarios_endpoint_summary called on the results
\* of run_all_scenarios emits a table that has exactly one row for every
\* triple of results, no other row, and in each row projection_months equal
\* to the number of rows of the triple's projection.
EndpointShape ==
    endpoint # <<>> =>
        LET rows == endpoint[1].rows
        IN  /\ endpoint[1].raised = ""
            /\ \A t \in StoredTriples : Cardinality(RowsOf(rows, t)) = 1
            /\ \A i \in 1..Len(rows) :
                  /\ <<rows[i].facility, rows[i].metric, rows[i].scenario>> \in StoredTriples
                  /\ rows[i].projection_months = Len(StoredProjection(rows[i]))

\* the rows the dataset holds for a group, as a set
GroupRowSet(facility, metric) ==
    {raw_df[i] : i \in {j \in 1..Len(raw_df) : IsGroupRow(raw_df[j], facility, metric)}}

\* the values of a group by rank of date: the k-th is the value of the row
\* that has k - 1 rows of the group dated before it (dates are distinct
\* within a group), wherever the rows stand in the dataset
ValuesByDate(facility, metric) ==
    LET rows == GroupRowSet(facility, metric)
    IN  [k \in 1..Cardinality(rows) |->
            (CHOOSE r \in rows :
                Cardinality({q \in rows : q.date < r.date}) = k - 1).value]

\* the group's rows do not stand in date order in the dataset
OutOfDateOrder(facility, metric) ==
    \E i, j \in 1..Len(raw_df) :
        /\ i < j
        /\ IsGroupRow(raw_df[i], facility, metric)
        /\ IsGroupRow(raw_df[j], facility, metric)
        /\ raw_df[i].date > raw_df[j].date

\* C22. Time ordering: the projection stored for a (facility, metric,
\* scenario) is the one project_metric gives on the group's values taken in
\* ascending date order, whatever the order of the rows in the dataset; so
\* every permutation of the rows yields the same projections.
TimeOrdering ==
    \A t \in StoredTriples :
        ProjectionOf(t) \in
            {c.table : c \in ProjectMetric(bitgen, 0, ValuesByDate(t[1], t[2]), Horizon,
                                           DictGet(cfg.variation, t[3]),
                                           cfg.num_simulations)}

\* run_all_scenarios has returned projections of two months for a group
\* whose rows stand out of date order in the dataset
TimeOrderingWitness ==
    /\ rpc = "done"
    /\ Cardinality(StoredTriples) = 3
    /\ \E t \in StoredTriples :
          /\ OutOfDateOrder(t[1], t[2])
          /\ raw_df[1].date = 4
          /\ raw_df[5].date = 1
          /\ Len(ProjectionOf(t)) = 2
          /\ ProjectionOf(t)[2].std > 0

\* the scenario names results holds for a group
StoredScenarios(facility, metric) ==
    {t[3] : t \in {s \in StoredTriples : s[1] = facility /\ s[2] = metric}}

\* the scenario names of the configuration
ConfiguredScenarios == {cfg.variation[i][1] : i \in 1..Len(cfg.variation)}

\* C23. One simulation per scenario: in the mapping run_all_scenarios
\* returns, the scenario names of every group that has an entry are exactly
\* the configured scenario names, and the projection under each name is the
\* one project_metric gives for the group's series with the multiplier
\* configured for that name.
OnePerScenario ==
    rpc = "done" =>
        \A f \in PoolFacilities, m \in PoolMetrics :
            HasEntry(f, m) =>
                /\ StoredScenarios(f, m) = ConfiguredScenarios
                /\ \A s \in ConfiguredScenarios :
                      ProjectionOf(<<f, m, s>>) \in
                          {c.table : c \in
                              ProjectMetric(bitgen, 0, GroupSeries(raw_df, f, m), Horizon,
                                            DictGet(cfg.variation, s), cfg.num_simulations)}

\* two groups hold three scenarios each, and in one of them the three
\* projections differ from one another in their last month
OnePerScenarioWitness ==
    /\ rpc = "done"
    /\ Cardinality(SurvivingGroups) = 2
    /\ Cardinality(ConfiguredScenarios) = 3
    /\ Horizon = 2
    /\ \E f \in PoolFacilities, m \in PoolMetrics :
          /\ HasEntry(f, m)
          /\ \A s, u \in ConfiguredScenarios :
                s # u => ProjectionOf(<<f, m, s>>)[2].mean # ProjectionOf(<<f, m, u>>)[2].mean

\* the dataset less the observations of every other facility and metric
OnlyGroup(facility, metric) ==
    SelectSeq(raw_df, LAMBDA r : IsGroupRow(r, facility, metric))

\* the configuration less every other scenario
OnlyScenario(scenario_name) ==
    [cfg EXCEPT !.variation = SelectSeq(cfg.variation, LAMBDA v : v[1] = scenario_name)]

\* what run_all_scenarios stores for a triple when it is run on the triple's
\* group and scenario alone
StoredAlone(triple) ==
    LET alone == SequentialLoopOn(OnlyGroup(triple[1], triple[2]),
                                  OnlyScenario(triple[3]), bitgen, 0, <<>>, 1, 0, 0)
    IN  DictGet(DictGet(DictGet(alone, triple[1]), triple[2]), triple[3])

\* C27. Isolation between groups: the projection run_all_scenarios stores for
\* a (facility, metric, scenario) is the one it stores when the dataset holds
\* the observations of that group only and the configuration that scenario
\* only (same num_simulations and horizons); so the observations of the other
\* facilities and metrics and the other scenarios, present or not, leave it
\* unchanged.
GroupIsolation ==
    rpc = "done" => \A t \in StoredTriples : ProjectionOf(t) = StoredAlone(t)

\* run_all_scenarios has returned projections with noise in them for two
\* groups and three scenarios
GroupIsolationWitness ==
    /\ rpc = "done"
    /\ Cardinality(SurvivingGroups) = 2
    /\ Cardinality(StoredTriples) = 6
    /\ Horizon = 2
    /\ cfg.num_simulations = MaxSims
    /\ \A t \in StoredTriples : ProjectionOf(t)[2].std > 0
    /\ \E t, u \in StoredTriples : ProjectionOf(t)[2].median # ProjectionOf(u)[2].median

\* the facilities of the dataset
DatasetFacilities == {raw_df[i].facility : i \in 1..Len(raw_df)}

\* the metrics of the whole dataset
DatasetMetrics == {raw_df[i].metric : i \in 1..Len(raw_df)}

\* the top-level keys of results
FacilityKeySet == {results[i][1] : i \in 1..Len(results)}

\* C28. Facility keys are always present: the top-level keys of the mapping
\* run_all_scenarios returns are exactly the distinct facilities of the
\* dataset, each once; a facility all of whose metrics were skipped maps to
\* an empty mapping; and a metric of the dataset that a facility never
\* reports is skipped: it gets no entry, and run_all_scenarios never raises
\* at such a group.
FacilityKeys ==
    /\ rpc = "done" =>
          /\ FacilityKeySet = DatasetFacilities
          /\ Len(results) = Cardinality(DatasetFacilities)
          /\ \A f \in DatasetFacilities :
                /\ (\A m \in DatasetMetrics : Observations(f, m) < 3) =>
                      DictGet(results, f) = <<>>
                /\ \A m \in DatasetMetrics :
                      Observations(f, m) = 0 => ~HasKey(DictGet(results, f), m)
    /\ (rpc = "raised" /\ cfg.time_horizons # <<>>) =>
          Observations(CurFacility, CurMetric) > 0

\* run_all_scenarios has returned on a dataset of two facilities that report
\* different metrics, one of them with no group long enough
FacilityKeysWitness ==
    /\ rpc = "done"
    /\ Cardinality(DatasetFacilities) = 2
    /\ \E f \in DatasetFacilities :
          /\ \A m \in DatasetMetrics : Observations(f, m) < 3
          /\ \E m \in DatasetMetrics : Observations(f, m) = 0
          /\ DictGet(results, f) = <<>>
    /\ \E f \in DatasetFacilities : DictGet(results, f) # <<>>

EmptyCoverage ==
    /\ rpc = "done"
    /\ \A i \in 1..Len(results) : results[i][2] = <<>>

\* C30. Empty coverage: when every (facility, metric) group of the dataset is
\* skipped, so that results holds only facilities mapped to empty mappings,
\* scenarios_to_flat_df returns a table of zero rows and
\* scenarios_endpoint_summary returns a table of zero rows without raising.
EmptyCoverageViews ==
    EmptyCoverage =>
        /\ flat # <<>> => flat[1] = <<>>
        /\ endpoint # <<>> => (endpoint[1].raised = "" /\ endpoint[1].rows = <<>>)

\* both views were built on the results of a dataset of two facilities, each
\* with too few observations of its metric, under three scenarios
EmptyCoverageViewsWitness ==
    /\ EmptyCoverage
    /\ Len(results) = 2
    /\ Len(raw_df) >= 3
    /\ Len(cfg.variation) = 3
    /\ flat = << <<>> >>
    /\ endpoint # <<>>
    /\ endpoint[1].rows = <<>>

====
